---------------------------- MODULE Spec2Model ----------------------------
(***************************************************************************)
(* A model of script.py: the daily batch job that fetches yesterday's      *)
(* articles from the source collection, enriches each one through the      *)
(* language model (rate, summarize, translate, each with a one-shot        *)
(* fallback), ranks the enriched articles and replaces the contents of the *)
(* processed collection with the ranked records.                          *)
(*                                                                         *)
(* Python values are modelled as follows.                                  *)
(*   - A short string is a sequence of symbols.  A symbol is one character *)
(*     ("1", ".", "b"), the character SUPERSCRIPT TWO (written "sup2"), or *)
(*     a run of characters none of which is a digit or a dot ("Error:").   *)
(*   - A field value of a document is a tagged record: [t |-> "str", v |-> *)
(*     symbols], [t |-> "text", len |-> n] (a string known by its length   *)
(*     only: article bodies), [t |-> "int", v |-> n] or [t |-> "none"].    *)
(*   - A dict is a TLA+ record; `k in d` is k \in DOMAIN d.                *)
(***************************************************************************)
EXTENDS Integers, Sequences, FiniteSets, TLC

VARIABLES
    faults,          \* whether store operations may fail in this behaviour
    llmMode,         \* which family of model responses the behaviour draws from
    src,             \* FIREBASE_COLLECTION: sequence of source documents
    dest,            \* PROCESSED_COLLECTION: set of [id, data] documents
    runs,            \* the runs of main() in this behaviour
    pc,              \* pc[r]: position of run r in main()
    exc,             \* exc[r]: the exception that left main(), if any
    news_items,      \* main: news_items
    fallback,        \* main: what happened to the fallback query (lines 388-409)
    idx,             \* process_news_articles: index of the next article
    processed_news,  \* process_news_articles / main: processed_news
    oplog,           \* model operations performed for the last article handled
    docs,            \* delete_historical_data: documents still to delete
    clear,           \* delete_historical_data: not_called / running / returned
    delete_count,    \* delete_historical_data: delete_count
    timestamp,       \* save_processed_news_to_firebase: timestamp
    writes,          \* save_processed_news_to_firebase: write attempts so far
    success_count,   \* save_processed_news_to_firebase: success_count
    result           \* save_processed_news_to_firebase: value returned

vars == <<faults, llmMode, src, dest, runs, pc, exc, news_items, fallback, idx,
          processed_news, oplog, docs, clear, delete_count, timestamp, writes,
          success_count, result>>

(***************************************************************************)
(* Bounds of the model.                                                    *)
(***************************************************************************)
MaxDocs == 2        \* documents with content in the source collection
MaxPrior == 2       \* documents in the destination before the run
MaxTime == 2        \* distinct clock readings a run may take
MaxSortLen == 4     \* length of the lists the ranking is applied to alone
MaxEnrich == 1      \* articles handled with every combination of responses

(***************************************************************************)
(* Program constants.                                                      *)
(***************************************************************************)
FallbackLimit == 10
ContentLimit == 3000

---------------------------------------------------------------------------
(***************************************************************************)
(* Strings.                                                                *)
(***************************************************************************)
DecimalChars == {"0", "1", "2", "3", "4", "5", "6", "7", "8", "9"}

\* str.isdigit() accepts every character whose Unicode Numeric_Type is Digit
\* or Decimal: the ten decimal digits and, among others, SUPERSCRIPT TWO.
DigitChars == DecimalChars \cup {"sup2"}

DigitVal(c) ==
    CASE c = "0" -> 0 [] c = "1" -> 1 [] c = "2" -> 2 [] c = "3" -> 3
      [] c = "4" -> 4 [] c = "5" -> 5 [] c = "6" -> 6 [] c = "7" -> 7
      [] c = "8" -> 8 [] c = "9" -> 9

\* s.isdigit(): non-empty and every character a digit.
IsDigit(s) == Len(s) > 0 /\ \A i \in 1..Len(s) : s[i] \in DigitChars

RECURSIVE Replace1(_, _)
\* s.replace(c, '', 1): s without the first occurrence of c.
Replace1(s, c) ==
    IF s = <<>> THEN <<>>
    ELSE IF Head(s) = c THEN Tail(s)
    ELSE <<Head(s)>> \o Replace1(Tail(s), c)

\* text.startswith("Error:")
StartsWithError(s) == Len(s) > 0 /\ s[1] = "Error:"

RECURSIVE Pow10(_)
Pow10(n) == IF n = 0 THEN 1 ELSE 10 * Pow10(n - 1)

RECURSIVE DigitsValue(_)
DigitsValue(s) ==
    IF s = <<>> THEN 0
    ELSE 10 * DigitsValue(SubSeq(s, 1, Len(s) - 1)) + DigitVal(s[Len(s)])

\* float(s) raises ValueError unless s is a decimal numeral; of the strings
\* that pass the isdigit test these are the ones with a non-decimal digit.
FloatRaises(s) == \E i \in 1..Len(s) : s[i] \notin DecimalChars \cup {"."}

\* float(s) for a numeral d*[.d*], as the exact fraction num / 10^scale.
Float(s) ==
    LET ds == Replace1(s, ".")
        dot == IF \E i \in 1..Len(s) : s[i] = "."
               THEN CHOOSE i \in 1..Len(s) :
                        s[i] = "." /\ \A j \in 1..(i - 1) : s[j] # "."
               ELSE Len(s) + 1
    IN  [num |-> DigitsValue(ds),
         scale |-> IF dot > Len(s) THEN 0 ELSE Len(s) - dot]

\* The comparison of two sort keys (a < b).
KeyLess(a, b) == a.num * Pow10(b.scale) < b.num * Pow10(a.scale)

Ten == [num |-> 10, scale |-> 0]


---------------------------------------------------------------------------
(***************************************************************************)
(* Python values and dicts.                                                *)
(***************************************************************************)
None == [t |-> "none"]
Str(s) == [t |-> "str", v |-> s]
Text(n) == [t |-> "text", len |-> n]
PyInt(n) == [t |-> "int", v |-> n]

\* bool(v)
Truthy(v) ==
    CASE v.t = "none" -> FALSE
      [] v.t = "str" -> Len(v.v) > 0
      [] v.t = "text" -> v.len > 0
      [] v.t = "int" -> v.v # 0

IsString(v) == v.t \in {"str", "text"}

\* len(v), for a string
PyLen(v) == IF v.t = "str" THEN Len(v.v) ELSE v.len

\* v[:n], for a string
Slice(v, n) ==
    IF v.t = "str" THEN Str(SubSeq(v.v, 1, IF Len(v.v) < n THEN Len(v.v) ELSE n))
    ELSE Text(IF v.len < n THEN v.len ELSE n)

\* d.get(k, default)
Get(d, k, default) == IF k \in DOMAIN d THEN d[k] ELSE default

\* dict d with d[k] = v
Put(d, k, v) == (k :> v) @@ d

NoTitle == <<"No title">>
Unknown == <<"Unknown">>
NA == <<"N/A">>

ErrRate == <<"Error:", " Could not rate article">>
ErrSummarize == <<"Error:", " Could not summarize article">>
ErrTranslate == <<"Error:", " Could not translate to Chinese">>
ErrNoText == <<"Error:", " No text to translate">>

---------------------------------------------------------------------------
(***************************************************************************)
(* The ranking of main(), line 416.                                        *)
(***************************************************************************)
\* x.get('business_importance', '10')
Importance(x) == Get(x, "business_importance", <<"1", "0">>)

\* The test of the sort key: s.replace('.', '', 1).isdigit()
LooksNumeric(s) == IsDigit(Replace1(s, "."))

\* Whether computing the key of x raises (ValueError from float).
SortKeyRaises(x) == LooksNumeric(Importance(x)) /\ FloatRaises(Importance(x))

\* A key that puts every non-numeric rating after every rating up to 11.
SortKeyEleven(x) ==
    IF LooksNumeric(Importance(x)) THEN Float(Importance(x))
    ELSE [num |-> 11, scale |-> 0]

\* The key of x: float(business_importance) if the test passes, else 10.
SortKey(x) == IF LooksNumeric(Importance(x)) THEN Float(Importance(x)) ELSE Ten

RECURSIVE InsertByKey(_, _)
\* xs (sorted) with x placed after every element whose key is not greater.
InsertByKey(xs, x) ==
    IF xs = <<>> THEN <<x>>
    ELSE IF KeyLess(SortKey(x), SortKey(Head(xs))) THEN <<x>> \o xs
    ELSE <<Head(xs)>> \o InsertByKey(Tail(xs), x)

RECURSIVE SortByImportance(_)
\* list.sort(key=...): ascending and stable.
SortByImportance(xs) ==
    IF xs = <<>> THEN <<>>
    ELSE InsertByKey(SortByImportance(SubSeq(xs, 1, Len(xs) - 1)), xs[Len(xs)])

---------------------------------------------------------------------------
(***************************************************************************)
(* The language model.  A response is the outcome of one endpoint call:    *)
(* a failure (network, API error, malformed response) or a text.  An       *)
(* operation is handed the responses its calls will get, in call order.    *)
(***************************************************************************)
Fail == [ok |-> FALSE, text |-> <<>>]
Ok(t) == [ok |-> TRUE, text |-> t]

Whitespace == {" "}

RECURSIVE LStrip(_)
LStrip(s) == IF s # <<>> /\ Head(s) \in Whitespace THEN LStrip(Tail(s)) ELSE s

RECURSIVE RStrip(_)
RStrip(s) ==
    IF s # <<>> /\ s[Len(s)] \in Whitespace
    THEN RStrip(SubSeq(s, 1, Len(s) - 1)) ELSE s

\* s.strip()
Strip(s) == RStrip(LStrip(s))

\* An operation that gives up after the chat endpoint fails.
TwoTierNoFallback(responses, sentinel) ==
    IF responses[1].ok
    THEN [ret |-> Strip(responses[1].text),
          calls |-> <<[endpoint |-> "chat", ok |-> TRUE]>>]
    ELSE [ret |-> sentinel,
          calls |-> <<[endpoint |-> "chat", ok |-> FALSE]>>]

\* The try / except / try / except of rate_news, summarize_news and
\* translate_to_chinese: the chat endpoint, on failure the completion
\* endpoint, on failure of both the operation's sentinel.
TwoTier(responses, sentinel) ==
    IF responses[1].ok
    THEN [ret |-> Strip(responses[1].text),
          calls |-> <<[endpoint |-> "chat", ok |-> TRUE]>>]
    ELSE IF responses[2].ok
    THEN [ret |-> Strip(responses[2].text),
          calls |-> <<[endpoint |-> "chat", ok |-> FALSE],
                      [endpoint |-> "completion", ok |-> TRUE]>>]
    ELSE [ret |-> sentinel,
          calls |-> <<[endpoint |-> "chat", ok |-> FALSE],
                      [endpoint |-> "completion", ok |-> FALSE]>>]

\* An operation's entry in the log of the article being handled.
OpEntry(op, arg, responses, r, raised) ==
    [op |-> op, arg |-> arg, responses |-> responses, ret |-> r.ret,
     calls |-> r.calls, raised |-> raised]

rate_news(news_article, responses) ==
    OpEntry("rate_news", news_article, responses,
            TwoTier(responses, ErrRate), FALSE)

summarize_news(news_article, responses) ==
    OpEntry("summarize_news", news_article, responses,
            TwoTier(responses, ErrSummarize), FALSE)

\* A translation that tests only for an empty text, and so sends an error
\* message to the model.
TranslateErrorText(text, responses) ==
    IF ~Truthy(text)
    THEN OpEntry("translate_to_chinese", text, responses,
                 [ret |-> ErrNoText, calls |-> <<>>], FALSE)
    ELSE IF text.t # "str"
    THEN OpEntry("translate_to_chinese", text, responses,
                 [ret |-> <<>>, calls |-> <<>>], TRUE)
    ELSE OpEntry("translate_to_chinese", text, responses,
                 TwoTier(responses, ErrTranslate), FALSE)

\* `not text or text.startswith("Error:")`: a falsy value of any type returns
\* at once; a truthy value that is no string has no startswith and raises
\* AttributeError, before the try.
translate_to_chinese(text, responses) ==
    IF ~Truthy(text)
    THEN OpEntry("translate_to_chinese", text, responses,
                 [ret |-> ErrNoText, calls |-> <<>>], FALSE)
    ELSE IF text.t # "str"
    THEN OpEntry("translate_to_chinese", text, responses,
                 [ret |-> <<>>, calls |-> <<>>], TRUE)
    ELSE IF StartsWithError(text.v)
    THEN OpEntry("translate_to_chinese", text, responses,
                 [ret |-> ErrNoText, calls |-> <<>>], FALSE)
    ELSE OpEntry("translate_to_chinese", text, responses,
                 TwoTier(responses, ErrTranslate), FALSE)

---------------------------------------------------------------------------
(***************************************************************************)
(* process_news_articles: one iteration of its loop.                       *)
(***************************************************************************)
ContentCandidates == <<"text", "body", "article", "description">>

\* get_content_field: 'content' if present, else the first candidate present,
\* else None.
get_content_field(news_item) ==
    IF "content" \in DOMAIN news_item THEN news_item["content"]
    ELSE IF \E i \in 1..Len(ContentCandidates) :
                ContentCandidates[i] \in DOMAIN news_item
    THEN news_item[ContentCandidates[
             CHOOSE i \in 1..Len(ContentCandidates) :
                 /\ ContentCandidates[i] \in DOMAIN news_item
                 /\ \A j \in 1..(i - 1) : ContentCandidates[j] \notin DOMAIN news_item]]
    ELSE None

\* Whether the article's title is to be translated (line 283).
TitleToTranslate(article) ==
    /\ "title" \in DOMAIN article
    /\ Truthy(article["title"])
    /\ ~(article["title"].t = "str" /\ article["title"].v = NoTitle)

\* The loop body for one article, given the responses o of the model:
\*   skipped   no content (line 250), nothing appended
\*   raised    len(content) raises TypeError outside the try (line 255)
\*   dropped   an exception inside the try (line 288), nothing appended
\*   appended  article_copy is appended
ProcessOne(news, o) ==
    LET content == get_content_field(news) IN
    IF ~Truthy(content)
    THEN [outcome |-> "skipped", article |-> news, log |-> <<>>]
    ELSE IF ~IsString(content)
    THEN [outcome |-> "raised", article |-> news, log |-> <<>>]
    ELSE
      LET processed_content ==
              IF PyLen(content) > ContentLimit
              THEN Slice(content, ContentLimit) ELSE content
          rate == rate_news(processed_content, o.rate)
          summ == summarize_news(processed_content, o.sum)
          tsum == translate_to_chinese(Str(summ.ret), o.tsum)
          copy3 == Put(Put(Put(news, "business_importance", rate.ret),
                           "summary", summ.ret),
                       "summary_chinese", tsum.ret)
      IN  IF TitleToTranslate(copy3)
          THEN LET ttitle == translate_to_chinese(copy3["title"], o.ttitle) IN
               IF ttitle.raised
               THEN [outcome |-> "dropped", article |-> news,
                     log |-> <<rate, summ, tsum, ttitle>>]
               ELSE [outcome |-> "appended",
                     article |-> Put(copy3, "title_chinese", ttitle.ret),
                     log |-> <<rate, summ, tsum, ttitle>>]
          ELSE [outcome |-> "appended", article |-> copy3,
                log |-> <<rate, summ, tsum>>]

---------------------------------------------------------------------------
(***************************************************************************)
(* The document store.                                                     *)
(***************************************************************************)
\* get_yesterday_date_range: the bounds of yesterday; dates are numbers that
\* order as the ISO-8601 strings do.
YesterdayRange == [start |-> 100, end |-> 199]

RECURSIVE InsertDateDesc(_, _)
\* xs (descending by date) with x placed after every element not older.
InsertDateDesc(xs, x) ==
    IF xs = <<>> THEN <<x>>
    ELSE IF Head(xs)["date_published"] < x["date_published"] THEN <<x>> \o xs
    ELSE <<Head(xs)>> \o InsertDateDesc(Tail(xs), x)

RECURSIVE SortDateDesc(_)
\* sort(key=date_published, reverse=True): descending and stable.
SortDateDesc(xs) ==
    IF xs = <<>> THEN <<>>
    ELSE InsertDateDesc(SortDateDesc(SubSeq(xs, 1, Len(xs) - 1)), xs[Len(xs)])

RECURSIVE WithIds(_)
\* doc.to_dict() with news_data['id'] = doc.id, for each document.
WithIds(ds) ==
    IF ds = <<>> THEN <<>>
    ELSE <<Put(Head(ds).data, "id", Head(ds).id)>> \o WithIds(Tail(ds))

InRange(d) ==
    /\ d.data["date_published"] >= YesterdayRange.start
    /\ d.data["date_published"] <= YesterdayRange.end

\* fetch_yesterday_news: the documents of the date window, newest first.
fetch_yesterday_news(collection) ==
    SortDateDesc(WithIds(SelectSeq(collection, InRange)))

Prefix(xs, n) == SubSeq(xs, 1, IF Len(xs) < n THEN Len(xs) ELSE n)

\* The fallback query without its limit.
RecentQueryUnlimited(collection) == SortDateDesc(WithIds(collection))

\* order_by('date_published', DESCENDING).limit(10): what the fallback query
\* streams, in order.
RecentQuery(collection) == Prefix(SortDateDesc(WithIds(collection)), FallbackLimit)

\* A document key orders before another (Firestore streams by document id).
KeyBefore(a, b) == a[1] < b[1] \/ (a[1] = b[1] /\ a[2] < b[2])

RECURSIVE KeysInOrder(_)
KeysInOrder(keys) ==
    IF keys = {} THEN <<>>
    ELSE LET k == CHOOSE x \in keys : \A y \in keys \ {x} : KeyBefore(x, y)
         IN  <<k>> \o KeysInOrder(keys \ {k})

\* A stream that yields a single document.
StreamKeysOne(collection) == Prefix(KeysInOrder({d.id : d \in collection}), 1)

\* processed_ref.stream(): the documents of the collection at the time of
\* the query.
StreamKeys(collection) == KeysInOrder({d.id : d \in collection})

\* doc.reference.delete()
DeleteKey(collection, k) == {d \in collection : d.id # k}

\* processed_ref.document(doc_id).set(save_data)
SetDoc(collection, k, data) ==
    DeleteKey(collection, k) \cup {[id |-> k, data |-> data]}

\* processed_ref.add(save_data): a document under a fresh generated id
\* (generated ids are the keys <<0, n>>).
AddDoc(collection, data) ==
    LET used == {d.id[2] : d \in {e \in collection : e.id[1] = 0}}
        n == CHOOSE i \in 1..(Cardinality(used) + 1) : i \notin used
    IN  collection \cup {[id |-> <<0, n>>, data |-> data]}

---------------------------------------------------------------------------
(***************************************************************************)
(* save_processed_news_to_firebase: the record of one article.             *)
(***************************************************************************)
OptionalFields == <<"summary_chinese", "title_chinese", "author", "category", "tags">>

RECURSIVE CopyPresent(_, _, _)
\* data with every one of the fields (from position i on) that the article has.
CopyPresent(data, article, i) ==
    IF i > Len(OptionalFields) THEN data
    ELSE CopyPresent(
             IF OptionalFields[i] \in DOMAIN article
             THEN Put(data, OptionalFields[i], article[OptionalFields[i]])
             ELSE data,
             article, i + 1)

\* original_id = article.get('id', ''); the empty string is 0.
OriginalId(article) == Get(article, "id", 0)

\* save_data (lines 335-356)
SaveData(article, rank, ts) ==
    CopyPresent(
        [original_article_id |-> OriginalId(article),
         title |-> Get(article, "title", Str(NoTitle)),
         date_published |-> Get(article, "date_published", 0),
         business_importance |-> Get(article, "business_importance", NA),
         summary |-> Get(article, "summary", NA),
         processed_at |-> ts,
         source |-> Get(article, "article_url", Get(article, "url", Unknown)),
         rank |-> rank],
        article, 1)

\* doc_id = f"{original_id}_{timestamp}" if original_id else None
DocId(article, ts) == <<OriginalId(article), ts>>

\* The store after the write of one record succeeded (lines 359-362).
WriteDoc(collection, article, rank, ts) ==
    IF OriginalId(article) # 0
    THEN SetDoc(collection, DocId(article, ts), SaveData(article, rank, ts))
    ELSE AddDoc(collection, SaveData(article, rank, ts))

---------------------------------------------------------------------------
(***************************************************************************)
(* Inputs: source documents and model responses.                           *)
(***************************************************************************)
MaxBare == 11       \* documents without content in the source collection

Headline == <<"Headline">>

\* The fields of a source document of each kind.
DocData(kind, date) ==
    LET base == [date_published |-> date] IN
    CASE kind = "full" ->
           Put(Put(base, "content", Text(100)), "title", Str(Headline))
      [] kind = "body" ->
           Put(Put(base, "body", Text(20)), "title", Str(Headline))
      [] kind = "long" -> Put(base, "content", Text(ContentLimit + 1))
      [] kind = "nocontent" -> Put(base, "title", Str(Headline))
      [] kind = "emptycontent" ->
           Put(Put(base, "content", Str(<<>>)), "title", Str(Headline))
      [] kind = "intcontent" ->
           Put(Put(base, "content", PyInt(42)), "title", Str(Headline))
      [] kind = "inttitle" ->
           Put(Put(base, "content", Text(100)), "title", PyInt(7))
      [] kind = "nonetitle" ->
           Put(Put(base, "content", Text(100)), "title", None)
      [] kind = "placeholder" ->
           Put(Put(base, "content", Text(100)), "title", Str(NoTitle))
      [] kind = "errtitle" ->
           Put(Put(base, "content", Text(100)), "title", Str(<<"Error:", " 404">>))

MainKinds == {"full", "nocontent", "intcontent", "inttitle"}
AllKinds == {"full", "body", "long", "nocontent", "emptycontent", "intcontent",
             "inttitle", "nonetitle", "placeholder", "errtitle"}

\* A source collection: n documents of the given kinds, dated yesterday or
\* earlier, and nb older documents without content.
Collection(kinds, day, nb) ==
    [i \in 1..(Len(kinds) + nb) |->
        IF i <= Len(kinds)
        THEN [id |-> i,
              data |-> DocData(kinds[i],
                               (IF day = "yesterday" THEN YesterdayRange.start
                                ELSE YesterdayRange.start - 50) + i)]
        ELSE [id |-> i, data |-> DocData("nocontent", i - Len(kinds))]]

SeqsUpTo(S, n) == UNION {[1..k -> S] : k \in 0..n}

SummaryText == <<"Summary.">>
ChineseText == <<"zh">>

RatingTexts == {<<"1">>, <<"1", "0", ".", "5">>, <<"sup2">>}
FreeRatingTexts == {<<" ", "7">>}
FreeSummaryTexts == {SummaryText, <<" ">>, <<"Error:", " cannot">>}

\* The responses an operation can get: the chat call answers; or it fails and
\* the completion call answers; or both fail.
OpOutcomes(texts) ==
    {<<Ok(t)>> : t \in texts} \cup {<<Fail, Ok(t)>> : t \in texts}
        \cup {<<Fail, Fail>>}

AllOk(t) == [rate |-> <<Ok(t)>>, sum |-> <<Ok(SummaryText)>>,
             tsum |-> <<Ok(ChineseText)>>, ttitle |-> <<Ok(ChineseText)>>]
PrimaryDown == [rate |-> <<Fail, Ok(<<"3">>)>>, sum |-> <<Fail, Ok(SummaryText)>>,
                tsum |-> <<Fail, Ok(ChineseText)>>,
                ttitle |-> <<Fail, Ok(ChineseText)>>]
Down == [rate |-> <<Fail, Fail>>, sum |-> <<Fail, Fail>>,
         tsum |-> <<Fail, Fail>>, ttitle |-> <<Fail, Fail>>]

\* The responses the calls made for one article can get.
Outcomes ==
    CASE llmMode = "free" ->
           [rate : OpOutcomes(FreeRatingTexts), sum : OpOutcomes(FreeSummaryTexts),
            tsum : OpOutcomes({ChineseText}), ttitle : OpOutcomes({ChineseText})]
      [] llmMode = "patterns" ->
           {AllOk(t) : t \in RatingTexts} \cup {PrimaryDown, Down}
      [] llmMode = "reliable" -> {AllOk(<<"1">>)}

\* Whether a store operation succeeds.
StoreOk == IF faults THEN {TRUE, FALSE} ELSE {TRUE}

\* What an earlier run, at clock reading 1, saved for source document i.
PriorDoc(i) ==
    LET article == ProcessOne(Put(DocData("full", YesterdayRange.start + i), "id", i),
                              AllOk(<<"9">>)).article
    IN  [id |-> DocId(article, 1), data |-> SaveData(article, i, 1)]

---------------------------------------------------------------------------
(***************************************************************************)
(* main().                                                                 *)
(***************************************************************************)
NoException == [type |-> "none", at |-> "none"]

InitRun(rs, p) ==
    /\ runs = rs
    /\ pc = [r \in rs |-> p]
    /\ exc = [r \in rs |-> NoException]
    /\ news_items = [r \in rs |-> <<>>]
    /\ fallback = [r \in rs |-> "not_issued"]
    /\ idx = [r \in rs |-> 1]
    /\ processed_news = [r \in rs |-> <<>>]
    /\ oplog = [r \in rs |-> <<>>]
    /\ docs = [r \in rs |-> <<>>]
    /\ clear = [r \in rs |-> "not_called"]
    /\ delete_count = [r \in rs |-> 0]
    /\ timestamp = [r \in rs |-> 0]
    /\ writes = [r \in rs |-> <<>>]
    /\ success_count = [r \in rs |-> 0]
    /\ result = [r \in rs |-> None]

Init ==
    /\ faults = TRUE
    /\ llmMode = "patterns"
    /\ \E kinds \in SeqsUpTo(MainKinds, MaxDocs), day \in {"yesterday", "older"},
          nb \in {0, MaxBare} :
           src = Collection(kinds, day, nb)
    /\ \E p \in 0..MaxPrior : dest = {PriorDoc(i) : i \in 1..p}
    /\ InitRun({1}, "start")

AllRuns == {1, 2}

\* Run r is at position p of main().
At(r, p) == r \in runs /\ pc[r] = p

Raise(r, type, at) ==
    /\ pc' = [pc EXCEPT ![r] = "raised"]
    /\ exc' = [exc EXCEPT ![r] = [type |-> type, at |-> at]]

\* initialize_firebase (line 375): credentials and the store handle.
Startup(r) ==
    /\ At(r, "start")
    /\ \E ok \in StoreOk :
         IF ok THEN pc' = [pc EXCEPT ![r] = "listing"] /\ exc' = exc
         ELSE Raise(r, "Exception", "initialize_firebase")
    /\ UNCHANGED <<faults, llmMode, src, dest, runs, news_items, fallback, idx,
                   processed_news, oplog, docs, clear, delete_count, timestamp,
                   writes, success_count, result>>

\* db.collections() and the loop that prints them (lines 378-381).
ListCollections(r) ==
    /\ At(r, "listing")
    /\ \E ok \in StoreOk :
         IF ok THEN pc' = [pc EXCEPT ![r] = "fetching"] /\ exc' = exc
         ELSE Raise(r, "Exception", "collections")
    /\ UNCHANGED <<faults, llmMode, src, dest, runs, news_items, fallback, idx,
                   processed_news, oplog, docs, clear, delete_count, timestamp,
                   writes, success_count, result>>

\* news_items = fetch_yesterday_news(db) (line 384) and the test of line 388.
FetchYesterday(r) ==
    /\ At(r, "fetching")
    /\ \E ok \in StoreOk :
         IF ok
         THEN /\ news_items' = [news_items EXCEPT ![r] = fetch_yesterday_news(src)]
              /\ pc' = [pc EXCEPT ![r] =
                          IF news_items'[r] = <<>> THEN "fallback" ELSE "enriching"]
              /\ exc' = exc
         ELSE /\ Raise(r, "Exception", "fetch_yesterday_news")
              /\ news_items' = news_items
    /\ UNCHANGED <<faults, llmMode, src, dest, runs, fallback, idx,
                   processed_news, oplog, docs, clear, delete_count, timestamp,
                   writes, success_count, result>>

\* The fallback query (lines 388-409): the stream yields k documents and then
\* ends or fails; a failure is caught.  Then the test of line 412.
FetchRecent(r) ==
    /\ At(r, "fallback")
    /\ \E ok \in StoreOk, k \in 0..Len(RecentQuery(src)) :
         /\ ok => k = Len(RecentQuery(src))
         /\ news_items' = [news_items EXCEPT ![r] = Prefix(RecentQuery(src), k)]
         /\ fallback' = [fallback EXCEPT ![r] = IF ok THEN "returned" ELSE "failed"]
         /\ pc' = [pc EXCEPT ![r] = IF k = 0 THEN "done" ELSE "enriching"]
    /\ UNCHANGED <<faults, llmMode, src, dest, runs, exc, idx,
                   processed_news, oplog, docs, clear, delete_count, timestamp,
                   writes, success_count, result>>

\* One iteration of the loop of process_news_articles (lines 245-290); after
\* the last one the function returns (line 292).
ProcessArticle(r) ==
    /\ At(r, "enriching")
    /\ \E o \in Outcomes :
         LET res == ProcessOne(news_items[r][idx[r]], o) IN
         IF res.outcome = "raised"
         THEN /\ Raise(r, "TypeError", "process_news_articles")
              /\ UNCHANGED <<idx, processed_news, oplog>>
         ELSE /\ processed_news' = [processed_news EXCEPT ![r] =
                     IF res.outcome = "appended" THEN Append(@, res.article) ELSE @]
              /\ oplog' = [oplog EXCEPT ![r] = res.log]
              /\ idx' = [idx EXCEPT ![r] = @ + 1]
              /\ pc' = [pc EXCEPT ![r] =
                          IF idx[r] = Len(news_items[r]) THEN "ranking" ELSE "enriching"]
              /\ exc' = exc
    /\ UNCHANGED <<faults, llmMode, src, dest, runs, news_items, fallback,
                   docs, clear, delete_count, timestamp, writes, success_count,
                   result>>

\* A ranking after which an empty list ends the run without clearing.
RankThenGate(r) ==
    /\ At(r, "ranking")
    /\ IF \E i \in 1..Len(processed_news[r]) : SortKeyRaises(processed_news[r][i])
       THEN /\ Raise(r, "ValueError", "sort")
            /\ processed_news' = processed_news
       ELSE /\ processed_news' = [processed_news EXCEPT ![r] = SortByImportance(@)]
            /\ pc' = [pc EXCEPT ![r] =
                        IF processed_news[r] = <<>> THEN "done" ELSE "clearing"]
            /\ exc' = exc
    /\ UNCHANGED <<faults, llmMode, src, dest, runs, news_items, fallback, idx,
                   oplog, docs, clear, delete_count, timestamp, writes,
                   success_count, result>>

\* processed_news.sort(key=...) (line 416): computing a key may raise, and
\* then the list is left as it was.
Rank(r) ==
    /\ At(r, "ranking")
    /\ IF \E i \in 1..Len(processed_news[r]) : SortKeyRaises(processed_news[r][i])
       THEN /\ Raise(r, "ValueError", "sort")
            /\ processed_news' = processed_news
       ELSE /\ processed_news' = [processed_news EXCEPT ![r] = SortByImportance(@)]
            /\ pc' = [pc EXCEPT ![r] = "clearing"]
            /\ exc' = exc
    /\ UNCHANGED <<faults, llmMode, src, dest, runs, news_items, fallback, idx,
                   oplog, docs, clear, delete_count, timestamp, writes,
                   success_count, result>>

\* A clear that waits until no other run is clearing or saving.
DeleteStreamLocked(r) ==
    /\ At(r, "clearing")
    /\ \A q \in runs \ {r} : pc[q] \notin {"deleting", "saving", "writing"}
    /\ docs' = [docs EXCEPT ![r] = StreamKeys(dest)]
    /\ clear' = [clear EXCEPT ![r] = IF dest = {} THEN "returned" ELSE "running"]
    /\ pc' = [pc EXCEPT ![r] = IF dest = {} THEN "saving" ELSE "deleting"]
    /\ UNCHANGED <<faults, llmMode, src, dest, runs, exc, news_items, fallback,
                   idx, processed_news, oplog, delete_count, timestamp, writes,
                   success_count, result>>

\* delete_historical_data: processed_ref.stream() (line 301).
DeleteStream(r) ==
    /\ At(r, "clearing")
    /\ \E ok \in StoreOk :
         IF ok
         THEN /\ docs' = [docs EXCEPT ![r] = StreamKeys(dest)]
              /\ clear' = [clear EXCEPT ![r] =
                             IF dest = {} THEN "returned" ELSE "running"]
              /\ pc' = [pc EXCEPT ![r] = IF dest = {} THEN "saving" ELSE "deleting"]
              /\ exc' = exc
         ELSE /\ Raise(r, "Exception", "delete_historical_data")
              /\ clear' = [clear EXCEPT ![r] = "raised"]
              /\ docs' = docs
    /\ UNCHANGED <<faults, llmMode, src, dest, runs, news_items, fallback, idx,
                   processed_news, oplog, delete_count, timestamp, writes,
                   success_count, result>>

\* delete_historical_data: one doc.reference.delete() (lines 305-307); after
\* the last one the function returns (line 310).
DeleteDoc(r) ==
    /\ At(r, "deleting")
    /\ \E ok \in StoreOk :
         IF ok
         THEN /\ dest' = DeleteKey(dest, Head(docs[r]))
              /\ delete_count' = [delete_count EXCEPT ![r] = @ + 1]
              /\ docs' = [docs EXCEPT ![r] = Tail(@)]
              /\ clear' = [clear EXCEPT ![r] =
                             IF Len(docs[r]) = 1 THEN "returned" ELSE "running"]
              /\ pc' = [pc EXCEPT ![r] =
                          IF Len(docs[r]) = 1 THEN "saving" ELSE "deleting"]
              /\ exc' = exc
         ELSE /\ Raise(r, "Exception", "delete_historical_data")
              /\ clear' = [clear EXCEPT ![r] = "raised"]
              /\ UNCHANGED <<dest, delete_count, docs>>
    /\ UNCHANGED <<faults, llmMode, src, runs, news_items, fallback, idx,
                   processed_news, oplog, timestamp, writes, success_count,
                   result>>

\* save_processed_news_to_firebase up to its loop (lines 314-327): the early
\* return on an empty list, else the timestamp.
SaveStart(r) ==
    /\ At(r, "saving")
    /\ IF processed_news[r] = <<>>
       THEN /\ pc' = [pc EXCEPT ![r] = "done"]
            /\ timestamp' = timestamp
       ELSE /\ pc' = [pc EXCEPT ![r] = "writing"]
            /\ \E ts \in 1..MaxTime : timestamp' = [timestamp EXCEPT ![r] = ts]
    /\ UNCHANGED <<faults, llmMode, src, dest, runs, exc, news_items, fallback,
                   idx, processed_news, oplog, docs, clear, delete_count, writes,
                   success_count, result>>

\* A save loop that a failed write ends.
WriteRecordAbort(r) ==
    /\ At(r, "writing")
    /\ LET rank == Len(writes[r]) + 1
           article == processed_news[r][rank]
       IN  \E ok \in StoreOk :
             /\ dest' = IF ok THEN WriteDoc(dest, article, rank, timestamp[r])
                        ELSE dest
             /\ writes' = [writes EXCEPT ![r] =
                   Append(@, [rank |-> rank, article |-> article, ok |-> ok,
                              data |-> SaveData(article, rank, timestamp[r])])]
             /\ success_count' = [success_count EXCEPT ![r] =
                                     IF ok THEN @ + 1 ELSE @]
             /\ IF rank = Len(processed_news[r]) \/ ~ok
                THEN /\ result' = [result EXCEPT ![r] = PyInt(success_count'[r])]
                     /\ pc' = [pc EXCEPT ![r] = "done"]
                ELSE /\ result' = result
                     /\ pc' = pc
    /\ UNCHANGED <<faults, llmMode, src, runs, exc, news_items, fallback, idx,
                   processed_news, oplog, docs, clear, delete_count, timestamp>>

\* One iteration of the loop of save_processed_news_to_firebase (lines
\* 328-368); after the last one the function returns success_count.
WriteRecord(r) ==
    /\ At(r, "writing")
    /\ LET rank == Len(writes[r]) + 1
           article == processed_news[r][rank]
       IN  \E ok \in StoreOk :
             /\ dest' = IF ok THEN WriteDoc(dest, article, rank, timestamp[r])
                        ELSE dest
             /\ writes' = [writes EXCEPT ![r] =
                   Append(@, [rank |-> rank, article |-> article, ok |-> ok,
                              data |-> SaveData(article, rank, timestamp[r])])]
             /\ success_count' = [success_count EXCEPT ![r] =
                                     IF ok THEN @ + 1 ELSE @]
             /\ IF rank = Len(processed_news[r])
                THEN /\ result' = [result EXCEPT ![r] = PyInt(success_count'[r])]
                     /\ pc' = [pc EXCEPT ![r] = "done"]
                ELSE /\ result' = result
                     /\ pc' = pc
    /\ UNCHANGED <<faults, llmMode, src, runs, exc, news_items, fallback, idx,
                   processed_news, oplog, docs, clear, delete_count, timestamp>>

Next ==
    \E r \in AllRuns :
        \/ Startup(r)
        \/ ListCollections(r)
        \/ FetchYesterday(r)
        \/ FetchRecent(r)
        \/ ProcessArticle(r)
        \/ Rank(r)
        \/ DeleteStream(r)
        \/ DeleteDoc(r)
        \/ SaveStart(r)
        \/ WriteRecord(r)

Spec == Init /\ [][Next]_vars

---------------------------------------------------------------------------
(***************************************************************************)
(* The ranking alone: the sort of line 416 applied to every list of        *)
(* enriched articles of up to MaxSortLen ratings.                          *)
(***************************************************************************)
SortTexts == {<<"1">>, <<"3">>, <<"1", "0">>, <<"1", "0", ".", "5">>,
              <<"b", "a", "d">>, <<"sup2">>}

\* Enriched articles, in processing order, with the given ratings.
Rated(ratings) ==
    [i \in 1..Len(ratings) |-> [id |-> i, business_importance |-> ratings[i]]]

InitSort ==
    /\ faults = FALSE
    /\ llmMode = "reliable"
    /\ src = <<>>
    /\ dest = {}
    /\ runs = {1}
    /\ pc = [r \in {1} |-> "ranking"]
    /\ exc = [r \in {1} |-> NoException]
    /\ \E ratings \in SeqsUpTo(SortTexts, MaxSortLen) :
         /\ news_items = [r \in {1} |-> Rated(ratings)]
         /\ processed_news = [r \in {1} |-> Rated(ratings)]
    /\ fallback = [r \in {1} |-> "not_issued"]
    /\ idx = [r \in {1} |-> 1]
    /\ oplog = [r \in {1} |-> <<>>]
    /\ docs = [r \in {1} |-> <<>>]
    /\ clear = [r \in {1} |-> "not_called"]
    /\ delete_count = [r \in {1} |-> 0]
    /\ timestamp = [r \in {1} |-> 0]
    /\ writes = [r \in {1} |-> <<>>]
    /\ success_count = [r \in {1} |-> 0]
    /\ result = [r \in {1} |-> None]

NextSort == \E r \in AllRuns : Rank(r)

SpecSort == InitSort /\ [][NextSort]_vars

(***************************************************************************)
(* process_news_articles alone, on every list of up to MaxEnrich articles  *)
(* of every kind, each operation getting every combination of responses.   *)
(***************************************************************************)
InitEnrich ==
    /\ faults = FALSE
    /\ llmMode = "free"
    /\ \E kinds \in SeqsUpTo(AllKinds, MaxEnrich) :
         /\ kinds # <<>>
         /\ src = Collection(kinds, "yesterday", 0)
    /\ dest = {}
    /\ runs = {1}
    /\ pc = [r \in {1} |-> "enriching"]
    /\ exc = [r \in {1} |-> NoException]
    /\ news_items = [r \in {1} |-> fetch_yesterday_news(src)]
    /\ processed_news = [r \in {1} |-> <<>>]
    /\ fallback = [r \in {1} |-> "not_issued"]
    /\ idx = [r \in {1} |-> 1]
    /\ oplog = [r \in {1} |-> <<>>]
    /\ docs = [r \in {1} |-> <<>>]
    /\ clear = [r \in {1} |-> "not_called"]
    /\ delete_count = [r \in {1} |-> 0]
    /\ timestamp = [r \in {1} |-> 0]
    /\ writes = [r \in {1} |-> <<>>]
    /\ success_count = [r \in {1} |-> 0]
    /\ result = [r \in {1} |-> None]

NextEnrich == \E r \in AllRuns : ProcessArticle(r)

SpecEnrich == InitEnrich /\ [][NextEnrich]_vars

(***************************************************************************)
(* Two runs of main() at the same time against the same collections, with  *)
(* a store and a model that do not fail.                                   *)
(***************************************************************************)
InitConc ==
    /\ faults = FALSE
    /\ llmMode = "reliable"
    /\ \E n \in 1..MaxDocs, day \in {"yesterday", "older"} :
         src = Collection([i \in 1..n |-> "full"], day, 0)
    /\ \E p \in 0..MaxPrior : dest = {PriorDoc(i) : i \in 1..p}
    /\ InitRun(AllRuns, "start")

SpecConc == InitConc /\ [][Next]_vars

---------------------------------------------------------------------------
(***************************************************************************)
(* Properties.                                                             *)
(***************************************************************************)
\* The records of run r: one per enriched article, ranked by position.
RunRecords(r) ==
    {[id |-> DocId(processed_news[r][k], timestamp[r]),
      data |-> SaveData(processed_news[r][k], k, timestamp[r])] :
        k \in 1..Len(processed_news[r])}

AllWritesOk(r) == \A k \in 1..Len(writes[r]) : writes[r][k].ok

\* C1: after a run that fetched at least one article and ran to completion
\* with every write succeeding, the destination holds exactly one record per
\* enriched article of this run and nothing of an earlier run.
C1_FullReplacement ==
    \A r \in runs :
        (pc[r] = "done" /\ news_items[r] # <<>> /\ AllWritesOk(r))
        => /\ dest = RunRecords(r)
           /\ Cardinality(dest) = Len(processed_news[r])

\* A completed run that deleted two records of an earlier run made at the same
\* clock reading (hence under the same document ids) and saved two records.
C1_Witness ==
    /\ pc[1] = "done"
    /\ Len(processed_news[1]) = 2
    /\ Len(writes[1]) = 2
    /\ AllWritesOk(1)
    /\ delete_count[1] = 2
    /\ timestamp[1] = 1

\* C2: the destination is cleared, and saving attempted, if and only if the
\* article list after both fetches is non-empty.  With no article neither a
\* delete nor a write is issued and the destination is left as it was; with
\* articles of which none was enriched the destination is cleared and the
\* run ends with it empty.  (Stated of runs that return from main.)
C2_State ==
    \A r \in runs :
        /\ (clear[r] # "not_called" \/ writes[r] # <<>>
              \/ pc[r] \in {"saving", "writing"})
           => news_items[r] # <<>>
        /\ (fallback[r] # "not_issued" /\ news_items[r] = <<>>) => pc[r] = "done"
        /\ (pc[r] = "done" /\ news_items[r] = <<>>)
           => /\ clear[r] = "not_called"
              /\ delete_count[r] = 0
              /\ writes[r] = <<>>
        /\ (pc[r] = "done" /\ news_items[r] # <<>>)
           => /\ clear[r] = "returned"
              /\ Len(writes[r]) = Len(processed_news[r])
        /\ (pc[r] = "done" /\ news_items[r] # <<>> /\ processed_news[r] = <<>>)
           => dest = {}

C2_ClearingGate ==
    /\ []C2_State
    /\ [][(\A r \in runs : news_items'[r] = <<>>) => dest' = dest]_vars

\* A run that fetched articles, enriched none of them, deleted what the
\* destination held and ended with it empty.
C2_Witness ==
    /\ pc[1] = "done"
    /\ news_items[1] # <<>>
    /\ processed_news[1] = <<>>
    /\ delete_count[1] >= 1
    /\ dest = {}

\* The ratings of a list of articles, in order.
Ratings(xs) == [i \in 1..Len(xs) |-> xs[i]["business_importance"]]

ExampleRatings == <<<<"3">>, <<"b", "a", "d">>, <<"1">>, <<"1", "0", ".", "5">>>>

\* Run r has ranked the articles rated, in processing order, 3, bad, 1, 10.5.
ExampleRanked(r) == pc[r] = "clearing" /\ Ratings(news_items[r]) = ExampleRatings

\* C3 as stated: the ranking of 3, bad, 1, 10.5 is 1, 3, 10.5, bad.
C3_Original ==
    \A r \in runs :
        ExampleRanked(r)
        => Ratings(processed_news[r])
             = <<<<"1">>, <<"3">>, <<"1", "0", ".", "5">>, <<"b", "a", "d">>>>

\* C3 as amended: the ranking of 3, bad, 1, 10.5 is 1, 3, bad, 10.5: the
\* non-numeric rating has key 10 and goes before the rating 10.5.
C3_Ranking ==
    \A r \in runs :
        ExampleRanked(r)
        => Ratings(processed_news[r])
             = <<<<"1">>, <<"3">>, <<"b", "a", "d">>, <<"1", "0", ".", "5">>>>

C3_Witness == ExampleRanked(1) /\ Len(processed_news[1]) = 4

\* The key the specification gives a rating: its numeric value when it is a
\* decimal numeral (digits 0-9 with at most one point), else 10.
CleanNumeral(s) ==
    /\ LooksNumeric(s)
    /\ \A i \in 1..Len(s) : s[i] \in DecimalChars \cup {"."}

ClaimKey(s) == IF CleanNumeral(s) THEN Float(s) ELSE Ten

\* The position of article a in the fetch (and processing) order of run r.
FetchPos(r, a) == CHOOSE k \in 1..Len(news_items[r]) : news_items[r][k]["id"] = a["id"]

Ranked(r) == pc[r] \in {"clearing", "deleting", "saving", "writing", "done"}

\* The enriched articles of run r are in ascending order of the claimed key,
\* equal keys in processing order.
OrderedByClaimKey(r) ==
    \A i, j \in 1..Len(processed_news[r]) :
        i < j =>
          LET ki == ClaimKey(processed_news[r][i]["business_importance"])
              kj == ClaimKey(processed_news[r][j]["business_importance"])
          IN  /\ ~KeyLess(kj, ki)
              /\ ~KeyLess(ki, kj)
                   => FetchPos(r, processed_news[r][i]) < FetchPos(r, processed_news[r][j])

\* The ranks and ratings written are the positions and the ratings of the
\* ranked articles, and a rating is the string rate_news returned.
RanksAndRatings(r) ==
    /\ \A k \in 1..Len(writes[r]) :
         /\ writes[r][k].article = processed_news[r][k]
         /\ writes[r][k].data["rank"] = k
         /\ writes[r][k].data["business_importance"]
              = processed_news[r][k]["business_importance"]
    /\ (pc[r] \in {"enriching", "ranking"} /\ oplog[r] # <<>>
          /\ ~oplog[r][Len(oplog[r])].raised)
       => processed_news[r][Len(processed_news[r])]["business_importance"]
            = oplog[r][1].ret

\* C4: every run orders its enriched articles ascending by the numeric value
\* of the rating, or 10 when the rating is no clean decimal numeral, equal keys
\* in processing order; the record at position r has rank r; the stored
\* rating is the string rate_news returned.
C4_RankAssignment ==
    \A r \in runs :
        /\ exc[r].at # "sort"
        /\ Ranked(r) => OrderedByClaimKey(r)
        /\ RanksAndRatings(r)

\* Whether process_news_articles has to keep the article: it has content and
\* handling it raises nothing.
Enrichable(a) ==
    /\ Truthy(get_content_field(a))
    /\ IsString(get_content_field(a))
    /\ TitleToTranslate(a) => a["title"].t = "str"

Ids(xs) == [i \in 1..Len(xs) |-> xs[i]["id"]]

\* C5: a missing content field or an exception while handling one article
\* removes only that article; the loop goes on and the function returns
\* normally with the other articles, once each, in fetch order.
C5_Isolation ==
    \A r \in runs :
        /\ exc[r].at # "process_news_articles"
        /\ pc[r] \in {"enriching", "ranking"}
           => Ids(processed_news[r])
                = Ids(SelectSeq(SubSeq(news_items[r], 1, idx[r] - 1), Enrichable))

\* C6: once startup has succeeded (the listing of the collections counted
\* with it) a run never raises to its caller, whatever fails afterwards in the
\* store reads, the clear, the writes or the model calls.
C6_NeverRaises ==
    \A r \in runs :
        pc[r] = "raised" => exc[r].at \in {"initialize_firebase", "collections"}

Sentinel(op) ==
    CASE op = "rate_news" -> ErrRate
      [] op = "summarize_news" -> ErrSummarize
      [] op = "translate_to_chinese" -> ErrTranslate

\* The text of entry e passes the short-circuit of translate_to_chinese.
PassesShortCircuit(e) ==
    \/ e.op # "translate_to_chinese"
    \/ (Truthy(e.arg) /\ e.arg.t = "str" /\ ~StartsWithError(e.arg.v))

CallsTo(e, endpoint) ==
    Cardinality({i \in 1..Len(e.calls) : e.calls[i].endpoint = endpoint})

PrimaryFailed(e) == ~e.responses[1].ok
BothFailed(e) == ~e.responses[1].ok /\ ~e.responses[2].ok

\* C7: an operation calls the chat endpoint once; the completion endpoint
\* once if and only if the chat call failed; returns the chat result, else
\* the completion result, and its sentinel if and only if both failed; makes
\* at most two calls and raises nothing.
C7_TwoTier ==
    \A r \in runs : \A i \in 1..Len(oplog[r]) :
        LET e == oplog[r][i] IN
        PassesShortCircuit(e)
        => /\ CallsTo(e, "chat") = 1
           /\ e.calls[1].endpoint = "chat"
           /\ CallsTo(e, "completion") = (IF PrimaryFailed(e) THEN 1 ELSE 0)
           /\ ~PrimaryFailed(e) => e.ret = Strip(e.responses[1].text)
           /\ (PrimaryFailed(e) /\ ~BothFailed(e))
                => e.ret = Strip(e.responses[2].text)
           /\ (e.ret = Sentinel(e.op)) <=> BothFailed(e)
           /\ Len(e.calls) <= 2
           /\ ~e.raised

\* For one article: the rating failed twice, the summary came from the
\* completion endpoint, the translation of the summary from the chat endpoint.
C7_Witness ==
    /\ Len(oplog[1]) >= 3
    /\ BothFailed(oplog[1][1]) /\ oplog[1][1].ret = ErrRate
    /\ PrimaryFailed(oplog[1][2]) /\ ~BothFailed(oplog[1][2])
    /\ oplog[1][2].ret = SummaryText
    /\ oplog[1][3].op = "translate_to_chinese" /\ ~PrimaryFailed(oplog[1][3])
    /\ oplog[1][3].ret = ChineseText

\* The records whose writes succeeded, and their number.
OkWrites(r) == {k \in 1..Len(writes[r]) : writes[r][k].ok}
OkRecords(r) ==
    {[id |-> DocId(writes[r][k].article, timestamp[r]), data |-> writes[r][k].data] :
        k \in OkWrites(r)}

\* C8: a failed write does not stop the later writes; one write is attempted
\* for every ranked article; the count returned is the number of writes that
\* succeeded; after the save the destination holds exactly the records whose
\* writes succeeded.
C8_SaveIsolation ==
    \A r \in runs :
        /\ \A k \in 1..Len(writes[r]) :
             /\ writes[r][k].rank = k
             /\ writes[r][k].article = processed_news[r][k]
        /\ pc[r] = "writing"
           => /\ Len(writes[r]) < Len(processed_news[r])
              /\ success_count[r] = Cardinality(OkWrites(r))
              /\ dest = OkRecords(r)
        /\ (pc[r] = "done" /\ processed_news[r] # <<>>)
           => /\ Len(writes[r]) = Len(processed_news[r])
              /\ result[r] = PyInt(Cardinality(OkWrites(r)))
              /\ dest = OkRecords(r)

\* A save whose first write failed and whose second write succeeded.
C8_Witness ==
    /\ pc[1] = "done"
    /\ Len(writes[1]) = 2
    /\ ~writes[1][1].ok
    /\ writes[1][2].ok
    /\ result[1] = PyInt(1)

\* A step of the clear or of the save of run r.
ClearOrSaveStep(r) ==
    DeleteStream(r) \/ DeleteDoc(r) \/ SaveStart(r) \/ WriteRecord(r)

\* C9: nothing keeps a run from clearing and saving while another run is
\* clearing or saving (there is no lock), and so interleavings exist after
\* which the destination is the complete record set of neither run (the
\* witness).
C9_NoLocking ==
    \A r \in runs :
        pc[r] \in {"clearing", "deleting", "saving", "writing"}
        => ENABLED ClearOrSaveStep(r)

\* Both runs completed and wrote all their records, and the destination is the
\* record set of neither: it has lost a record of run 1, which run 2 deleted,
\* and mixes the rest with the records of run 2.
C9_Witness ==
    /\ runs = {1, 2}
    /\ pc[1] = "done" /\ pc[2] = "done"
    /\ Len(writes[1]) = 2 /\ Len(writes[2]) = 2
    /\ dest # RunRecords(1) /\ dest # RunRecords(2)
    /\ \E d \in RunRecords(1) : d \notin dest
    /\ \E d \in RunRecords(1) : d \in dest
    /\ RunRecords(2) \subseteq dest

\* The date-range fetch of run r has returned.
RangeFetched(r) ==
    pc[r] \notin {"start", "listing", "fetching"}
    /\ exc[r].at \notin {"initialize_firebase", "collections", "fetch_yesterday_news"}

\* C10: the fallback query is issued if and only if the date-range fetch
\* returned no article; it contributes at most 10 articles; its failure is
\* absorbed and the run goes on with the articles accumulated; fallback
\* articles are enriched, ranked and saved like date-range articles, so the
\* destination is cleared and rewritten.  (The last part is stated of runs
\* that return from main.)
C10_Fallback ==
    \A r \in runs :
        /\ (RangeFetched(r) /\ pc[r] # "fallback")
           => (fallback[r] # "not_issued" <=> fetch_yesterday_news(src) = <<>>)
        /\ fallback[r] # "not_issued"
           => /\ Len(news_items[r]) <= FallbackLimit
              /\ news_items[r] = Prefix(SortDateDesc(WithIds(src)), Len(news_items[r]))
              /\ exc[r].at \notin {"fallback"}
              /\ news_items[r] = <<>> <=> pc[r] = "done" /\ clear[r] = "not_called"
        /\ fallback[r] = "returned"
           => Len(news_items[r]) = (IF Len(src) < FallbackLimit THEN Len(src)
                                    ELSE FallbackLimit)
        /\ (fallback[r] # "not_issued" /\ news_items[r] # <<>> /\ pc[r] = "done")
           => /\ clear[r] = "returned"
              /\ Len(writes[r]) = Len(processed_news[r])
              /\ dest = OkRecords(r)

\* The fallback failed after its tenth article, of more than ten in the source;
\* the run went on, deleted what the destination held and saved a record.
C10_Witness ==
    /\ fallback[1] = "failed"
    /\ Len(news_items[1]) = FallbackLimit
    /\ Len(src) > FallbackLimit
    /\ pc[1] = "done"
    /\ delete_count[1] >= 1
    /\ \E k \in 1..Len(writes[1]) : writes[1][k].ok

\* The entries of the log of run r that are calls of translate_to_chinese.
Translations(r) ==
    {i \in 1..Len(oplog[r]) : oplog[r][i].op = "translate_to_chinese"}

\* The text is empty (falsy) or a string that starts with "Error:".
EmptyOrError(text) ==
    \/ ~Truthy(text)
    \/ (text.t = "str" /\ Len(text.v) > 0 /\ text.v[1] = "Error:")

\* C11: translate_to_chinese returns "Error: No text to translate" and calls
\* neither endpoint whenever its text is empty or starts with "Error:"; a call
\* is made only for a text that is non-empty and does not start with "Error:";
\* the translation of the summary is given the summary just produced, so an
\* article whose summary is an error sentinel is appended with summary_chinese
\* = "Error: No text to translate" and no call made for it.
C11_ShortCircuit ==
    \A r \in runs :
        /\ \A i \in Translations(r) :
             LET e == oplog[r][i] IN
             /\ EmptyOrError(e.arg)
                => (e.ret = ErrNoText /\ e.calls = <<>> /\ ~e.raised)
             /\ e.calls # <<>>
                => (e.arg.t = "str" /\ e.arg.v # <<>> /\ ~EmptyOrError(e.arg))
        /\ Len(oplog[r]) >= 3
           => /\ oplog[r][2].op = "summarize_news"
              /\ oplog[r][3].op = "translate_to_chinese"
              /\ oplog[r][3].arg = Str(oplog[r][2].ret)
              /\ oplog[r][2].ret = ErrSummarize
                 => (oplog[r][3].ret = ErrNoText /\ oplog[r][3].calls = <<>>)
        /\ \A k \in 1..Len(processed_news[r]) :
             LET a == processed_news[r][k] IN
             EmptyOrError(Str(a["summary"])) => a["summary_chinese"] = ErrNoText

\* Both calls for the summary failed: the article was appended with the
\* summary sentinel and "Error: No text to translate", the translation of the
\* summary made no call, and the translation of the title called the model.
C11_Witness ==
    /\ Len(processed_news[1]) >= 1
    /\ Len(oplog[1]) = 4
    /\ oplog[1][2].ret = ErrSummarize
    /\ oplog[1][3].calls = <<>>
    /\ processed_news[1][Len(processed_news[1])]["summary"] = ErrSummarize
    /\ processed_news[1][Len(processed_news[1])]["summary_chinese"] = ErrNoText
    /\ oplog[1][4].calls # <<>>
    /\ oplog[1][4].arg = Str(Headline)

===========================================================================
